---- MODULE Spec2Model ----
(***************************************************************************)
(* Model of the EDU-TRACK roster application (App component): the roster   *)
(* state kept with useState, the localStorage load/save effects, the       *)
(* add / update / delete handlers, the CSV exporter and importer, the tab  *)
(* filter and the asynchronous analysis request.                           *)
(*                                                                         *)
(* Text is modelled as a sequence of one-character strings, so that the    *)
(* regular expressions of the importer and the quoting of the exporter are *)
(* computed character by character.                                        *)
(***************************************************************************)
EXTENDS Integers, Sequences, FiniteSets, TLC

(***************************************************************************)
(* Characters and strings                                                  *)
(***************************************************************************)
QUOTE == "\""
COMMA == ","
NL == "\n"
CR == "\r"
\* U+FEFF, the byte-order mark; JavaScript counts it as white space.
BOM == "BOM"

\* The characters matched by \s and removed by String.prototype.trim.
IsSpace(c) == c \in {" ", "\t", NL, CR, BOM}

\* The characters "." does not match.
IsLineTerminator(c) == c \in {NL, CR}

RECURSIVE TrimLeft(_)
TrimLeft(s) ==
    IF s # <<>> /\ IsSpace(Head(s)) THEN TrimLeft(Tail(s)) ELSE s

RECURSIVE TrimRight(_)
TrimRight(s) ==
    IF s # <<>> /\ IsSpace(s[Len(s)])
    THEN TrimRight(SubSeq(s, 1, Len(s) - 1))
    ELSE s

\* String.prototype.trim
Trim(s) == TrimRight(TrimLeft(s))

RECURSIVE JoinWith(_, _)
\* Array.prototype.join(sep) on an array of strings
JoinWith(parts, sep) ==
    IF parts = <<>> THEN <<>>
    ELSE IF Len(parts) = 1 THEN parts[1]
    ELSE parts[1] \o <<sep>> \o JoinWith(Tail(parts), sep)

RECURSIVE SplitLinesAcc(_, _, _)
SplitLinesAcc(t, cur, acc) ==
    IF t = <<>> THEN Append(acc, cur)
    ELSE IF Head(t) = NL
         THEN SplitLinesAcc(Tail(t), <<>>, Append(acc, cur))
    ELSE IF Head(t) = CR /\ Len(t) >= 2 /\ t[2] = NL
         THEN SplitLinesAcc(SubSeq(t, 3, Len(t)), <<>>, Append(acc, cur))
    ELSE SplitLinesAcc(Tail(t), Append(cur, Head(t)), acc)

\* text.split(/\r?\n/)
SplitLines(text) == SplitLinesAcc(text, <<>>, <<>>)

RECURSIVE SplitCommaAcc(_, _, _)
SplitCommaAcc(t, cur, acc) ==
    IF t = <<>> THEN Append(acc, cur)
    ELSE IF Head(t) = COMMA
         THEN SplitCommaAcc(Tail(t), <<>>, Append(acc, cur))
    ELSE SplitCommaAcc(Tail(t), Append(cur, Head(t)), acc)

\* line.split(',')
SplitComma(line) == SplitCommaAcc(line, <<>>, <<>>)

(***************************************************************************)
(* The tokenizer: line.match(/(".*?"|[^",\s]+)(?=\s*,|\s*$)/g)             *)
(***************************************************************************)
RECURSIVE SkipSpaces(_, _)
\* the position reached by \s* from position p
SkipSpaces(s, p) ==
    IF p <= Len(s) /\ IsSpace(s[p]) THEN SkipSpaces(s, p + 1) ELSE p

\* the lookahead (?=\s*,|\s*$) at position p
Lookahead(s, p) ==
    LET q == SkipSpaces(s, p) IN q > Len(s) \/ s[q] = COMMA

\* ".*?" at position i: the nearest closing quote the lookahead accepts; 0 if none
QuotedEnd(s, i) ==
    IF s[i] # QUOTE THEN 0
    ELSE LET ends == {j \in (i + 1)..Len(s) :
                        /\ s[j] = QUOTE
                        /\ \A k \in (i + 1)..(j - 1) : ~IsLineTerminator(s[k])
                        /\ Lookahead(s, j + 1)}
         IN IF ends = {} THEN 0
            ELSE CHOOSE j \in ends : \A k \in ends : j <= k

\* [^",\s]+ at position i: the longest run the lookahead accepts; 0 if none
BareEnd(s, i) ==
    LET IsBare(c) == c # QUOTE /\ c # COMMA /\ ~IsSpace(c)
        ends == {j \in i..Len(s) :
                    /\ \A k \in i..j : IsBare(s[k])
                    /\ Lookahead(s, j + 1)}
    IN IF ends = {} THEN 0
       ELSE CHOOSE j \in ends : \A k \in ends : j >= k

\* one attempt of the pattern at position i: the end of the match, 0 if none
MatchAt(s, i) ==
    LET q == QuotedEnd(s, i) IN IF q # 0 THEN q ELSE BareEnd(s, i)

RECURSIVE MatchAllFrom(_, _, _)
MatchAllFrom(s, i, acc) ==
    IF i > Len(s) THEN acc
    ELSE LET e == MatchAt(s, i)
         IN IF e = 0 THEN MatchAllFrom(s, i + 1, acc)
            ELSE MatchAllFrom(s, e + 1, Append(acc, SubSeq(s, i, e)))

\* String.prototype.match with the g flag: every match, <<>> standing for null
MatchAll(line) == MatchAllFrom(line, 1, <<>>)

\* parts = line.match(...) || line.split(',')
Tokenize(line) ==
    LET m == MatchAll(line) IN IF m = <<>> THEN SplitComma(line) ELSE m

(***************************************************************************)
(* Field cleaning and normalisation                                        *)
(***************************************************************************)
\* .replace(/^"|"$/g, '')
StripQuotes(s) ==
    LET a == IF s # <<>> /\ Head(s) = QUOTE THEN Tail(s) ELSE s
    IN IF a # <<>> /\ a[Len(a)] = QUOTE THEN SubSeq(a, 1, Len(a) - 1) ELSE a

RECURSIVE CollapseQuotes(_)
\* .replace(/""/g, '"')
CollapseQuotes(s) ==
    IF Len(s) >= 2 /\ s[1] = QUOTE /\ s[2] = QUOTE
    THEN <<QUOTE>> \o CollapseQuotes(SubSeq(s, 3, Len(s)))
    ELSE IF s = <<>> THEN <<>>
    ELSE <<Head(s)>> \o CollapseQuotes(Tail(s))

\* clean = (val) => (val || "").replace(/^"|"$/g, '').replace(/""/g, '"').trim()
Clean(val) == Trim(CollapseQuotes(StripQuotes(val)))

\* parts[k] with k counted from 0 as in the source; <<>> stands for undefined
Part(parts, k) == IF k + 1 <= Len(parts) THEN parts[k + 1] ELSE <<>>

Digits == <<"0", "1", "2", "3", "4", "5", "6", "7", "8", "9">>
IsDigit(c) == \E d \in 1..10 : Digits[d] = c
DigitVal(c) == (CHOOSE d \in 1..10 : Digits[d] = c) - 1

RECURSIVE DigitsValue(_, _)
\* the value of the longest prefix of digits of s, continuing from acc
DigitsValue(s, acc) ==
    IF s # <<>> /\ IsDigit(Head(s))
    THEN DigitsValue(Tail(s), acc * 10 + DigitVal(Head(s)))
    ELSE acc

\* parseInt(s): white space, an optional sign, then the leading digits;
\* nan when there is no digit
ParseInt(str) ==
    LET s == TrimLeft(str)
        neg == s # <<>> /\ Head(s) = "-"
        body == IF s # <<>> /\ Head(s) \in {"-", "+"} THEN Tail(s) ELSE s
    IN IF body = <<>> \/ ~IsDigit(Head(body))
       THEN [nan |-> TRUE, val |-> 0]
       ELSE [nan |-> FALSE,
             val |-> IF neg THEN 0 - DigitsValue(body, 0)
                     ELSE DigitsValue(body, 0)]

\* parseInt(clean(token)) || 1 : NaN and 0 are falsy
ToPositiveInt(token) ==
    LET n == ParseInt(Clean(token))
    IN IF n.nan \/ n.val = 0 THEN 1 ELSE n.val

Lower == <<"a", "b", "c", "d", "e", "f", "g", "h", "i", "j", "k", "l", "m",
           "n", "o", "p", "q", "r", "s", "t", "u", "v", "w", "x", "y", "z">>
Upper == <<"A", "B", "C", "D", "E", "F", "G", "H", "I", "J", "K", "L", "M",
           "N", "O", "P", "Q", "R", "S", "T", "U", "V", "W", "X", "Y", "Z">>

UpperChar(c) ==
    IF \E i \in 1..26 : Lower[i] = c
    THEN Upper[CHOOSE i \in 1..26 : Lower[i] = c]
    ELSE c

\* String.prototype.toUpperCase
ToUpperCase(s) == [i \in 1..Len(s) |-> UpperChar(s[i])]

ClassGroup == {"A", "B", "C"}

\* ['A','B','C'].includes(groupRaw) ? groupRaw : 'A'
ToGroup(token) ==
    LET groupRaw == ToUpperCase(Clean(token))
    IN IF Len(groupRaw) = 1 /\ groupRaw[1] \in ClassGroup
       THEN groupRaw[1]
       ELSE "A"

(***************************************************************************)
(* Records                                                                 *)
(***************************************************************************)
\* newStudent = { ...input, id, createdAt } and the record pushed by the importer
MkStudent(input, id, now) ==
    [id |-> id, grade |-> input.grade, schoolClass |-> input.schoolClass,
     number |-> input.number, group |-> input.group, name |-> input.name,
     phone |-> input.phone, remarks |-> input.remarks, createdAt |-> now]

\* { ...s, ...input } : every field of the input replaces the record's, id and
\* createdAt stay
Merge(s, input) == MkStudent(input, s.id, s.createdAt)

\* the StudentInput part of a record
InputOf(s) ==
    [grade |-> s.grade, schoolClass |-> s.schoolClass, number |-> s.number,
     group |-> s.group, name |-> s.name, phone |-> s.phone,
     remarks |-> s.remarks]

(***************************************************************************)
(* The exporter                                                            *)
(***************************************************************************)
RECURSIVE NatToStr(_)
NatToStr(n) ==
    IF n < 10 THEN <<Digits[n + 1]>>
    ELSE NatToStr(n \div 10) \o <<Digits[(n % 10) + 1]>>

\* the string a number takes in Array.prototype.join
NumToStr(n) == IF n < 0 THEN <<"-">> \o NatToStr(0 - n) ELSE NatToStr(n)

RECURSIVE DoubleQuotes(_)
\* .replace(/"/g, '""')
DoubleQuotes(s) ==
    IF s = <<>> THEN <<>>
    ELSE IF Head(s) = QUOTE THEN <<QUOTE, QUOTE>> \o DoubleQuotes(Tail(s))
    ELSE <<Head(s)>> \o DoubleQuotes(Tail(s))

\* `"${(s.remarks || '').replace(/"/g, '""')}"`
QuoteRemarks(remarks) == <<QUOTE>> \o DoubleQuotes(remarks) \o <<QUOTE>>

\* one data row: the seven columns joined by commas
Row(s) ==
    JoinWith(<<NumToStr(s.grade), NumToStr(s.schoolClass), NumToStr(s.number),
               <<s.group>>, s.name, s.phone, QuoteRemarks(s.remarks)>>, COMMA)

\* 'A' < 'B' < 'C' under localeCompare
GroupRank(g) == CASE g = "A" -> 1 [] g = "B" -> 2 [] g = "C" -> 3

\* a comparator that forgets the school class
CompareWithoutClass(a, b) ==
    IF a.group # b.group THEN GroupRank(a.group) - GroupRank(b.group)
    ELSE IF a.grade # b.grade THEN a.grade - b.grade
    ELSE a.number - b.number

\* the comparator handed to sort: negative, zero or positive
Compare(a, b) ==
    IF a.group # b.group THEN GroupRank(a.group) - GroupRank(b.group)
    ELSE IF a.grade # b.grade THEN a.grade - b.grade
    ELSE IF a.schoolClass # b.schoolClass THEN a.schoolClass - b.schoolClass
    ELSE a.number - b.number

RECURSIVE InsertSorted(_, _)
\* x placed behind every element that does not compare greater than it
InsertSorted(sorted, x) ==
    IF sorted = <<>> THEN <<x>>
    ELSE IF Compare(Head(sorted), x) <= 0
         THEN <<Head(sorted)>> \o InsertSorted(Tail(sorted), x)
    ELSE <<x>> \o sorted

RECURSIVE SortFrom(_, _)
SortFrom(list, acc) ==
    IF list = <<>> THEN acc
    ELSE SortFrom(Tail(list), InsertSorted(acc, Head(list)))

\* Array.prototype.sort with the comparator: a stable sort
SortStudents(list) == SortFrom(list, <<>>)

\* the seven header labels, each label one opaque token
Headers == << <<"h1">>, <<"h2">>, <<"h3">>, <<"h4">>, <<"h5">>, <<"h6">>, <<"h7">> >>

\* csvContent = [headers.join(','), ...rows.map(e => e.join(','))].join('\n')
CsvContent(sorted) ==
    JoinWith(<<JoinWith(Headers, COMMA)>> \o [i \in 1..Len(sorted) |-> Row(sorted[i])],
             NL)

\* new Blob(['\ufeff' + csvContent])
BlobOf(sorted) == <<BOM>> \o CsvContent(sorted)

(***************************************************************************)
(* The importer                                                            *)
(***************************************************************************)
\* FileReader.readAsText(file, "UTF-8"): the decoder drops a leading byte-order mark
ReadAsText(file) ==
    IF file # <<>> /\ Head(file) = BOM THEN Tail(file) ELSE file

\* lines.slice(1).filter(line => line.trim() !== "")
DataLines(text) ==
    LET lines == SplitLines(text)
        rest == SubSeq(lines, 2, Len(lines))
    IN SelectSeq(rest, LAMBDA line : Trim(line) # <<>>)

\* the placeholder of  clean(parts[4]) || "..."
NamePlaceholder == <<"n", "o", "n", "a", "m", "e">>

\* the body of the loop for one line: <<>> when the line is skipped, else the
\* fields of the record it pushes
ParseLine(line) ==
    LET parts == Tokenize(line)
    IN IF Clean(Part(parts, 4)) = <<>> THEN <<>>
       ELSE << [grade |-> ToPositiveInt(Part(parts, 0)),
                schoolClass |-> ToPositiveInt(Part(parts, 1)),
                number |-> ToPositiveInt(Part(parts, 2)),
                group |-> ToGroup(Part(parts, 3)),
                name |-> IF Clean(Part(parts, 4)) = <<>> THEN NamePlaceholder
                         ELSE Clean(Part(parts, 4)),
                phone |-> Clean(Part(parts, 5)),
                remarks |-> Clean(Part(parts, 6))] >>

RECURSIVE ImportLines(_, _, _)
\* the loop over dataLines; ids are drawn in order from the fresh identifier id
ImportLines(dataLines, id, acc) ==
    IF dataLines = <<>> THEN acc
    ELSE LET p == ParseLine(Head(dataLines))
         IN IF p = <<>> THEN ImportLines(Tail(dataLines), id, acc)
            ELSE ImportLines(Tail(dataLines), id + 1,
                             Append(acc, MkStudent(p[1], id, id)))

\* importedStudents for a text
ImportedStudents(text, id) == ImportLines(DataLines(text), id, <<>>)

\* an import that replaces the roster: prev => importedStudents
ReplaceByImported(prev, imported) == imported

\* prev => [...prev, ...importedStudents]
AppendImported(prev, imported) == prev \o imported

(***************************************************************************)
(* Bounds and the inputs the environment offers                            *)
(***************************************************************************)
\* the last identifier crypto.randomUUID may hand out in a run
MaxId == 2
\* the longest roster the exporter is given in SpecExport
MaxExport == 3
\* the longest roster exported and imported again in SpecRoundTrip
MaxRoundTrip == 2

ViewMode == ClassGroup \cup {"ALL"}

Str_Kim == <<"K", "i", "m">>
Str_Lee == <<"L", "e", "e">>
Str_Phone == <<"0", "1", "0">>
Str_Ok == <<"o", "k">>

Input(grade, schoolClass, number, group, name, phone, remarks) ==
    [grade |-> grade, schoolClass |-> schoolClass, number |-> number,
     group |-> group, name |-> name, phone |-> phone, remarks |-> remarks]

\* what the form submits in Spec
FormInputs ==
    { Input(2, 1, 1, "B", Str_Kim, Str_Phone, <<>>),
      Input(1, 1, 1, "A", Str_Lee, <<>>, Str_Ok) }

\* the text of a file with the given data lines under a header line
FileOf(dataLines) == JoinWith(<<JoinWith(Headers, COMMA)>> \o dataLines, NL)

\* one line from seven cells
LineOf(cells) == JoinWith(cells, COMMA)

\* the files the user can pick in Spec: one with a usable row and a row
\* without a name, one with no usable row
PickableFiles ==
    { FileOf(<< LineOf(<< <<"2">>, <<"1">>, <<"1">>, <<"b">>, Str_Kim,
                          Str_Phone, <<>> >>),
                LineOf(<< <<>>, <<>>, <<>>, <<>>, <<>>, <<>>, <<>> >>) >>),
      FileOf(<< LineOf(<< <<>>, <<>>, <<>>, <<>>, <<>>, <<>>, <<>> >>) >>) }

(***************************************************************************)
(* State                                                                   *)
(***************************************************************************)
VARIABLES
    pc,                \* where start-up stands: mount, loaded, saved, rendered,
                       \* running, crashed
    storage,           \* localStorage['edu_track_students']
    queued,            \* the setStudents call of the load effect not yet rendered
    students,          \* useState<Student[]>
    activeTab,         \* useState<ViewMode>
    aiAnalysis,        \* useState<string>: "" or the scope the text was computed for
    isAnalyzing,       \* useState(false)
    pendingAnalysis,   \* the scope of the getStudentAnalysis call in flight, "" if none
    reads,             \* the texts of the FileReader reads in flight; the input
                       \* fires no change event for the file it already holds
    exported,          \* the records of the rows of the file the last handler
                       \* downloaded, in row order; <<>> if it downloaded none
    importedStudents,  \* importedStudents of the last handler, <<>> if it was no import
    nextId,            \* the next fresh identifier
    lastOp,            \* the handler or callback that ran last
    files,             \* the texts of the files the user has at hand to pick
    snapshot0          \* the value localStorage held when the component was built

vars == <<pc, storage, queued, students, activeTab, aiAnalysis, isAnalyzing,
          pendingAnalysis, reads, exported, importedStudents, nextId, lastOp,
          files, snapshot0>>

\* localStorage values: no item, the empty string, text JSON.parse rejects, JSON
\* that is no array, and the JSON of an array of records
Missing == [kind |-> "missing", val |-> <<>>]
EmptyText == [kind |-> "empty", val |-> <<>>]
Unparseable == [kind |-> "unparseable", val |-> <<>>]
NonArray == [kind |-> "nonarray", val |-> <<>>]

\* localStorage.setItem(key, JSON.stringify(s)), read back by JSON.parse
Persist(s) == [kind |-> "array", val |-> s]

NoUpdate == [kind |-> "none", val |-> <<>>]

\* filteredStudents
FilteredStudents(list, tab) ==
    IF tab = "ALL" THEN list
    ELSE SelectSeq(list, LAMBDA s : s.group = tab)

\* the snapshots a previous session can have left
Snapshots ==
    { Missing, EmptyText, Unparseable, NonArray, Persist(<<>>),
      Persist(<< MkStudent(Input(2, 1, 1, "B", Str_Kim, Str_Phone, <<>>), 1, 1),
                 MkStudent(Input(1, 1, 1, "A", Str_Lee, <<>>, Str_Ok), 2, 2) >>) }

\* the state after the first render, before its effects have run
InitWith(snapshot, firstId, fileSet) ==
    /\ pc = "mount"
    /\ storage = snapshot
    /\ snapshot0 = snapshot
    /\ queued = NoUpdate
    /\ students = <<>>
    /\ activeTab = "ALL"
    /\ aiAnalysis = ""
    /\ isAnalyzing = FALSE
    /\ pendingAnalysis = ""
    /\ reads = {}
    /\ exported = <<>>
    /\ importedStudents = <<>>
    /\ nextId = firstId
    /\ lastOp = "none"
    /\ files = fileSet

Init ==
    \E snapshot \in Snapshots :
        InitWith(snapshot, Len(snapshot.val) + 1, PickableFiles)

(***************************************************************************)
(* Start-up: the two effects of the first render, and the render the load  *)
(* effect asks for                                                         *)
(***************************************************************************)
\* the load effect: getItem, JSON.parse, setStudents
LoadEffect ==
    /\ pc = "mount"
    /\ pc' = "loaded"
    /\ queued' = CASE storage.kind \in {"missing", "empty"} -> NoUpdate
                   [] storage.kind = "unparseable" -> NoUpdate
                   [] storage.kind = "nonarray" -> [kind |-> "nonarray", val |-> <<>>]
                   [] storage.kind = "array" -> [kind |-> "array", val |-> storage.val]
    /\ UNCHANGED <<storage, students, activeTab, aiAnalysis, isAnalyzing,
                   pendingAnalysis, reads, exported, importedStudents, nextId,
                   lastOp, files, snapshot0>>

\* the save effect of the first render: it sees the students of that render
SaveEffectMount ==
    /\ pc = "loaded"
    /\ storage' = Persist(students)
    /\ pc' = IF queued.kind = "none" THEN "running" ELSE "saved"
    /\ UNCHANGED <<queued, students, activeTab, aiAnalysis, isAnalyzing,
                   pendingAnalysis, reads, exported, importedStudents, nextId,
                   lastOp, files, snapshot0>>

\* the render with the loaded value: students.filter throws on a value that is
\* no array and the component tree is torn down (pc = "crashed"; nothing reads
\* students from then on, and the variable keeps the array it held)
Rerender ==
    /\ pc = "saved"
    /\ IF queued.kind = "array"
       THEN /\ students' = queued.val
            /\ pc' = "rendered"
       ELSE /\ students' = students
            /\ pc' = "crashed"
    /\ queued' = NoUpdate
    /\ UNCHANGED <<storage, activeTab, aiAnalysis, isAnalyzing, pendingAnalysis,
                   reads, exported, importedStudents, nextId, lastOp, files, snapshot0>>

\* the save effect after the render with the loaded value
SaveEffectLoaded ==
    /\ pc = "rendered"
    /\ storage' = Persist(students)
    /\ pc' = "running"
    /\ UNCHANGED <<queued, students, activeTab, aiAnalysis, isAnalyzing,
                   pendingAnalysis, reads, exported, importedStudents, nextId,
                   lastOp, files, snapshot0>>

(***************************************************************************)
(* The handlers. A handler that calls setStudents is followed at once by   *)
(* the render and by the save effect of that render, which is part of the  *)
(* step.                                                                   *)
(***************************************************************************)
addStudent(input) ==
    /\ pc = "running"
    /\ nextId <= MaxId
    /\ students' = Append(students, MkStudent(input, nextId, nextId))
    /\ nextId' = nextId + 1
    /\ storage' = Persist(students')
    /\ lastOp' = "add"
    /\ exported' = <<>>
    /\ importedStudents' = <<>>
    /\ UNCHANGED <<pc, queued, activeTab, aiAnalysis, isAnalyzing,
                   pendingAnalysis, reads, files, snapshot0>>

updateStudent(id, input) ==
    /\ pc = "running"
    /\ students' = [i \in 1..Len(students) |->
                      IF students[i].id = id THEN Merge(students[i], input)
                      ELSE students[i]]
    /\ storage' = Persist(students')
    /\ lastOp' = "update"
    /\ exported' = <<>>
    /\ importedStudents' = <<>>
    /\ UNCHANGED <<pc, queued, activeTab, aiAnalysis, isAnalyzing,
                   pendingAnalysis, reads, nextId, files, snapshot0>>

\* a delete that removes the record from the array in place and calls no
\* setStudents, so that no save effect runs
deleteStudentInPlace(id, confirmed) ==
    /\ pc = "running"
    /\ students' = IF confirmed THEN SelectSeq(students, LAMBDA s : s.id # id)
                   ELSE students
    /\ lastOp' = IF confirmed THEN "delete" ELSE "deleteDeclined"
    /\ exported' = <<>>
    /\ importedStudents' = <<>>
    /\ UNCHANGED <<pc, storage, queued, activeTab, aiAnalysis, isAnalyzing,
                   pendingAnalysis, reads, nextId, files, snapshot0>>

\* confirmed is the answer of window.confirm
deleteStudent(id, confirmed) ==
    /\ pc = "running"
    /\ IF confirmed
       THEN /\ students' = SelectSeq(students, LAMBDA s : s.id # id)
            /\ storage' = Persist(students')
            /\ lastOp' = "delete"
       ELSE /\ UNCHANGED <<students, storage>>
            /\ lastOp' = "deleteDeclined"
    /\ exported' = <<>>
    /\ importedStudents' = <<>>
    /\ UNCHANGED <<pc, queued, activeTab, aiAnalysis, isAnalyzing,
                   pendingAnalysis, reads, nextId, files, snapshot0>>

\* the onClick of a tab
selectTab(tab) ==
    /\ pc = "running"
    /\ activeTab' = tab
    /\ aiAnalysis' = ""
    /\ lastOp' = "tab"
    /\ exported' = <<>>
    /\ importedStudents' = <<>>
    /\ UNCHANGED <<pc, storage, queued, students, isAnalyzing, pendingAnalysis,
                   reads, nextId, files, snapshot0>>

\* sort works in place on filteredStudents, which under the ALL tab is the
\* students array itself and under a group tab is a fresh array
exportToCsv ==
    /\ pc = "running"
    /\ LET filteredStudents == FilteredStudents(students, activeTab)
           sorted == SortStudents(filteredStudents)
       IN IF filteredStudents = <<>>
          THEN /\ lastOp' = "exportRefused"
               /\ exported' = <<>>
               /\ students' = students
          ELSE /\ lastOp' = "export"
               /\ exported' = sorted
               /\ students' = IF activeTab = "ALL" THEN sorted ELSE students
    /\ importedStudents' = <<>>
    /\ UNCHANGED <<pc, storage, queued, activeTab, aiAnalysis, isAnalyzing,
                   pendingAnalysis, reads, nextId, files, snapshot0>>

\* the file the last handler downloaded, if it downloaded one
Downloaded == IF exported = <<>> THEN {} ELSE {BlobOf(exported)}

\* the onChange of the file input: a read is started
handleCsvImport(file) ==
    /\ pc = "running"
    /\ ReadAsText(file) \notin reads
    /\ reads' = reads \cup {ReadAsText(file)}
    /\ lastOp' = "pick"
    /\ exported' = <<>>
    /\ importedStudents' = <<>>
    /\ UNCHANGED <<pc, storage, queued, students, activeTab, aiAnalysis,
                   isAnalyzing, pendingAnalysis, nextId, files, snapshot0>>

\* reader.onload of the read that delivers text
readerOnload(text) ==
    /\ pc = "running"
    /\ text \in reads
    /\ LET imported == ImportedStudents(text, nextId)
       IN /\ nextId + Len(imported) - 1 <= MaxId
          /\ importedStudents' = imported
          /\ nextId' = nextId + Len(imported)
          /\ IF Len(imported) > 0
             THEN /\ students' = AppendImported(students, imported)
                  /\ storage' = Persist(students')
             ELSE UNCHANGED <<students, storage>>
    /\ reads' = reads \ {text}
    /\ lastOp' = "import"
    /\ exported' = <<>>
    /\ UNCHANGED <<pc, queued, activeTab, aiAnalysis, isAnalyzing,
                   pendingAnalysis, files, snapshot0>>

\* the analysis button, disabled while a request is pending or the list is empty
handleAiAnalysis ==
    /\ pc = "running"
    /\ ~isAnalyzing
    /\ FilteredStudents(students, activeTab) # <<>>
    /\ isAnalyzing' = TRUE
    /\ pendingAnalysis' = activeTab
    /\ lastOp' = "analyze"
    /\ exported' = <<>>
    /\ importedStudents' = <<>>
    /\ UNCHANGED <<pc, storage, queued, students, activeTab, aiAnalysis, reads,
                   nextId, files, snapshot0>>

\* the continuation after await getStudentAnalysis(...); hasText tells whether
\* the service answered with a non-empty text
analysisResolved(hasText) ==
    /\ pc = "running"
    /\ pendingAnalysis # ""
    /\ aiAnalysis' = IF hasText THEN pendingAnalysis ELSE ""
    /\ isAnalyzing' = FALSE
    /\ pendingAnalysis' = ""
    /\ lastOp' = "analysis"
    /\ exported' = <<>>
    /\ importedStudents' = <<>>
    /\ UNCHANGED <<pc, storage, queued, students, activeTab, reads, nextId,
                   files, snapshot0>>

Next ==
    \/ LoadEffect
    \/ SaveEffectMount
    \/ Rerender
    \/ SaveEffectLoaded
    \/ \E input \in FormInputs : addStudent(input)
    \/ \E id \in 1..MaxId, input \in FormInputs : updateStudent(id, input)
    \/ \E id \in 1..MaxId, confirmed \in BOOLEAN : deleteStudent(id, confirmed)
    \/ \E tab \in ViewMode : selectTab(tab)
    \/ exportToCsv
    \/ \E file \in files : handleCsvImport(file)
    \/ \E text \in reads : readerOnload(text)

Spec == Init /\ [][Next]_vars

(***************************************************************************)
(* The analysis request, with the start-up and the tabs                    *)
(***************************************************************************)
NextAnalysis ==
    \/ LoadEffect
    \/ SaveEffectMount
    \/ Rerender
    \/ SaveEffectLoaded
    \/ \E input \in FormInputs : addStudent(input)
    \/ \E tab \in ViewMode : selectTab(tab)
    \/ handleAiAnalysis
    \/ \E hasText \in BOOLEAN : analysisResolved(hasText)

SpecAnalysis == Init /\ [][NextAnalysis]_vars

(***************************************************************************)
(* The component at rest with a roster at hand. The records of the roster  *)
(* were made before the run; their identifiers lie below those the run     *)
(* hands out.                                                              *)
(***************************************************************************)
RosterOf(inputs) ==
    [i \in 1..Len(inputs) |->
        MkStudent(inputs[i], i - Len(inputs), i - Len(inputs))]

InitRunning(inputs, tab, fileSet) ==
    /\ pc = "running"
    /\ storage = Persist(RosterOf(inputs))
    /\ snapshot0 = Persist(RosterOf(inputs))
    /\ queued = NoUpdate
    /\ students = RosterOf(inputs)
    /\ activeTab = tab
    /\ aiAnalysis = ""
    /\ isAnalyzing = FALSE
    /\ pendingAnalysis = ""
    /\ reads = {}
    /\ exported = <<>>
    /\ importedStudents = <<>>
    /\ nextId = 1
    /\ lastOp = "none"
    /\ files = fileSet

\* the sequences over S of length 1..n
SeqsUpTo(S, n) == UNION {[1..k -> S] : k \in 1..n}

(***************************************************************************)
(* SpecImport: one file of one data row, its seven cells drawn from the    *)
(* tokens a hand-made file can hold, is picked and read                    *)
(***************************************************************************)
NumberCells == {<<>>, <<"0">>, <<"7">>, <<"-", "5">>, <<"x">>}
GroupCells == {<<>>, <<"a">>, <<"B">>, <<"z">>}
NameCells == {<<>>, <<" ">>, Str_Kim}
PhoneCells == {<<>>, Str_Phone}
RemarksCells == {<<>>, Str_Ok, <<QUOTE, "o", "k", QUOTE>>}

CellRows ==
    {<<g, c, n, grp, name, phone, remarks>> :
        g \in NumberCells, c \in {<<>>, <<"2">>}, n \in {<<"3">>, <<"-", "5">>},
        grp \in GroupCells, name \in NameCells, phone \in PhoneCells,
        remarks \in RemarksCells}

InitImport ==
    \E cells \in CellRows :
        InitRunning(<<>>, "ALL", {FileOf(<<LineOf(cells)>>)})

NextImport ==
    \/ \E file \in files : handleCsvImport(file)
    \/ \E text \in reads : readerOnload(text)

SpecImport == InitImport /\ [][NextImport]_vars

(***************************************************************************)
(* SpecExport: a roster of up to MaxExport records is exported under a tab *)
(***************************************************************************)
ExportInputs ==
    {Input(g, c, n, grp, Str_Kim, <<>>, <<>>) :
        g \in {1, 2}, c \in {1, 2}, n \in {1, 2}, grp \in {"A", "B"}}

InitExport ==
    \E inputs \in SeqsUpTo(ExportInputs, MaxExport), tab \in {"ALL", "B"} :
        InitRunning(inputs, tab, {})

NextExport == exportToCsv

SpecExport == InitExport /\ [][NextExport]_vars

(***************************************************************************)
(* SpecRoundTrip: a roster of up to MaxRoundTrip valid records is          *)
(* exported, and the file downloaded is picked and read                    *)
(***************************************************************************)
RoundTripInputs ==
    {Input(g, 2, 3, grp, name, phone, remarks) :
        g \in {1, 12}, grp \in {"A", "C"}, name \in {Str_Kim},
        phone \in {<<>>, Str_Phone},
        remarks \in {<<>>, Str_Ok, <<"s", COMMA, " ", QUOTE, "h", QUOTE>>}}

InitRoundTrip ==
    \E inputs \in SeqsUpTo(RoundTripInputs, MaxRoundTrip), tab \in {"ALL", "A"} :
        InitRunning(inputs, tab, {})

NextRoundTrip ==
    \/ exportToCsv
    \/ \E file \in Downloaded : handleCsvImport(file)
    \/ \E text \in reads : readerOnload(text)

SpecRoundTrip == InitRoundTrip /\ [][NextRoundTrip]_vars

(***************************************************************************)
(* Properties                                                              *)
(***************************************************************************)
Range(f) == {f[i] : i \in DOMAIN f}
Count(list, x) == Cardinality({i \in DOMAIN list : list[i] = x})

\* the same elements, each as many times
SameMultiset(a, b) ==
    /\ Len(a) = Len(b)
    /\ \A x \in Range(a) \cup Range(b) : Count(a, x) = Count(b, x)

\* the seven field values of every record, identifier and time left out
FieldsOf(list) == [i \in 1..Len(list) |-> InputOf(list[i])]

\* the roster as it was before the last import appended to it
BeforeImport == SubSeq(students, 1, Len(students) - Len(importedStudents))

\* C1: after the file just exported has been imported, the imported records
\* carry the same multiset of field values as the records that were exported.
C1_RoundTrip ==
    lastOp = "import" =>
        SameMultiset(FieldsOf(importedStudents),
                     FieldsOf(FilteredStudents(BeforeImport, activeTab)))

\* the fifth column of a line whose cells hold no comma
NameColumn(line) == Part(SplitComma(line), 4)

\* C2: after the import of a file each of whose data rows has an empty name
\* column after cleaning, no record has been produced.
C2_NoNameNoRecord ==
    lastOp = "import" =>
        \A f \in files :
            (\A k \in 1..Len(DataLines(f)) :
                Clean(NameColumn(DataLines(f)[k])) = <<>>)
            => importedStudents = <<>>

\* C3: every record an import produces has grade, schoolClass and number of
\* at least 1.
C3_PositiveNumbers ==
    \A i \in 1..Len(importedStudents) :
        /\ importedStudents[i].grade >= 1
        /\ importedStudents[i].schoolClass >= 1
        /\ importedStudents[i].number >= 1

\* identifiers are handed out in the order of creation
InInsertionOrder(list) ==
    \A i, j \in 1..Len(list) : i < j => list[i].id < list[j].id

\* C4: under every filter the listing of the roster is in insertion order,
\* whatever operations have run, exports included.
C4_ListingInInsertionOrder ==
    pc = "running" =>
        \A tab \in ViewMode : InInsertionOrder(FilteredStudents(students, tab))

\* the last handler was an add, an update, a confirmed delete or an import
\* that produced a record
AfterMutation ==
    \/ lastOp \in {"add", "update", "delete"}
    \/ lastOp = "import" /\ importedStudents # <<>>

\* C5: after a mutating operation the persisted snapshot is the whole roster
\* in memory, record for record and in the same order.
C5_SnapshotAfterMutation == AfterMutation => storage = Persist(students)

C5_Witness ==
    /\ AfterMutation
    /\ students # <<>>
    /\ snapshot0.kind # "array"
    /\ storage.kind = "array"
    /\ storage.val = students

\* C6: when a read completes, the roster of that moment stays as it is and the
\* imported records follow it in row order; with no imported record the roster
\* is left unchanged.
C6_ImportAppends ==
    [][lastOp' = "import" => students' = students \o importedStudents']_vars

C6_Witness ==
    /\ lastOp = "import"
    /\ importedStudents # <<>>
    /\ Len(students) > Len(importedStudents)
    /\ reads # {}

\* the sort keys of a record, compared in order
KeyOf(s) == <<GroupRank(s.group), s.grade, s.schoolClass, s.number>>

KeyLess(k1, k2) ==
    \E p \in 1..4 : k1[p] < k2[p] /\ \A q \in 1..(p - 1) : k1[q] = k2[q]

PositionIn(list, x) == CHOOSE i \in 1..Len(list) : list[i] = x

\* out holds the records of in, each once, in ascending order of the keys,
\* records of equal keys in the order they have in in
IsStableSortOf(out, in) ==
    /\ Len(out) = Len(in)
    /\ Range(out) = Range(in)
    /\ \A i, j \in 1..Len(out) :
          i < j =>
            /\ ~KeyLess(KeyOf(out[j]), KeyOf(out[i]))
            /\ KeyOf(out[i]) = KeyOf(out[j]) =>
                  PositionIn(in, out[i]) < PositionIn(in, out[j])

\* C7: the rows of an export are the filtered records, each once, ordered by
\* group, grade, schoolClass and number, records equal on all four in their
\* input order.
C7_ExportSorted ==
    [][lastOp' = "export" =>
          IsStableSortOf(exported', FilteredStudents(students, activeTab))]_vars

C7_Witness ==
    /\ lastOp = "export"
    /\ \E i, j \in 1..Len(exported) :
          i < j /\ KeyOf(exported[i]) = KeyOf(exported[j])
    /\ \E i, j \in 1..Len(exported) :
          i < j /\ exported[i].id > exported[j].id

\* C8: with a snapshot that is missing or is no array of records, start-up
\* does not fail and the roster is empty until the first operation.
C8_InvalidSnapshotStartsEmpty ==
    snapshot0.kind \in {"missing", "empty", "unparseable", "nonarray"} =>
        /\ pc # "crashed"
        /\ lastOp = "none" => students = <<>>

\* C9: from construction to the first operation the persisted snapshot is the
\* valid snapshot that was there at construction.
C9_StartupKeepsSnapshot ==
    (snapshot0.kind = "array" /\ lastOp = "none") => storage = snapshot0

\* C10: an analysis text on display was computed for the active tab.
C10_AnalysisOfActiveTab == aiAnalysis # "" => aiAnalysis = activeTab

====
